---- MODULE Spec2Model ----
(***************************************************************************)
(* Model of fitness.py: a SQLite index (table `files`) of FITS header      *)
(* keywords, keyed by the file path relative to conf['basedir'].           *)
(*                                                                         *)
(* Values of the non-date columns are opaque strings ("" is the sentinel). *)
(* Values of the date column are sequences of one-character strings, so    *)
(* that strptime and the datetime adapter are computed, and <<>> is the    *)
(* sentinel ''.  Paths are sequences of path components.                   *)
(***************************************************************************)
EXTENDS Integers, Sequences, FiniteSets, TLC

----------------------------------------------------------------------------
(* Bounds *)

\* largest number of keyword arguments of one query call
MaxAttrs == 2

----------------------------------------------------------------------------
(* Configuration: conf *)

\* conf['basedir'] = '/home/rtr/', as path components
basedir == <<"home", "rtr">>

\* conf['header_keywords']
header_keywords ==
    ("IMAGETYP" :> [datatype |-> "CHARACTER(8)",  name |-> "imagetype"]) @@
    ("EXPTIME"  :> [datatype |-> "FLOAT",         name |-> "exptime"])   @@
    ("PROJECT"  :> [datatype |-> "CHARACTER(16)", name |-> "project"])   @@
    ("OBJECT"   :> [datatype |-> "CHARACTER(32)", name |-> "object"])    @@
    ("SLIT"     :> [datatype |-> "TINYINT",       name |-> "slit"])      @@
    ("I2POS"    :> [datatype |-> "TINYINT",       name |-> "i2pos"])     @@
    ("IODID"    :> [datatype |-> "TINYINT",       name |-> "iodid"])     @@
    ("DATE-OBS" :> [datatype |-> "DATETIME",      name |-> "date"])

HeaderKeys == DOMAIN header_keywords

\* the key of conf['header_keywords'] that is mapped to column n
KeyOf(n) == CHOOSE k \in HeaderKeys : header_keywords[k].name = n

\* self.columns as built by Database.__init__
columns ==
    [c \in {"path"} \cup {header_keywords[k].name : k \in HeaderKeys} |->
        IF c = "path" THEN "CHARACTER(72) UNIQUE"
        ELSE header_keywords[KeyOf(c)].datatype]

\* "DATE" in colsettings['datatype'], over the datatypes of the configuration
ContainsDATE(datatype) == datatype \in {"DATETIME", "DATE"}

----------------------------------------------------------------------------
(* os.path.relpath(path, conf['basedir']) for absolute paths *)

RECURSIVE normpath(_, _)
\* normpath of an absolute path: drops "" and ".", resolves ".." against
\* the components collected so far (".." at the root stays at the root)
normpath(comps, acc) ==
    IF comps = <<>> THEN acc
    ELSE LET c == Head(comps) IN
         IF c \in {"", "."} THEN normpath(Tail(comps), acc)
         ELSE IF c = ".."
              THEN normpath(Tail(comps),
                            IF acc = <<>> THEN acc
                            ELSE SubSeq(acc, 1, Len(acc) - 1))
              ELSE normpath(Tail(comps), Append(acc, c))

RECURSIVE commonprefix(_, _)
\* length of the longest common prefix of two component lists
commonprefix(a, b) ==
    IF a = <<>> \/ b = <<>> \/ Head(a) # Head(b) THEN 0
    ELSE 1 + commonprefix(Tail(a), Tail(b))

relpath(path, start) ==
    LET p == normpath(path, <<>>)
        s == normpath(start, <<>>)
        i == commonprefix(s, p)
        rel == [k \in 1..(Len(s) - i) |-> ".."] \o SubSeq(p, i + 1, Len(p))
    IN IF rel = <<>> THEN <<".">> ELSE rel

----------------------------------------------------------------------------
(* datetime.strptime(value, '%Y-%m-%dT%H:%M:%S.%f') and the datetime       *)
(* adapter of sqlite3 (isoformat(" ")), over sequences of characters       *)

Digits == <<"0", "1", "2", "3", "4", "5", "6", "7", "8", "9">>

IsDigit(c) == \E i \in 1..10 : Digits[i] = c

DigitVal(c) == (CHOOSE i \in 1..10 : Digits[i] = c) - 1

AllDigits(t) == \A i \in 1..Len(t) : IsDigit(t[i])

RECURSIVE ToNum(_)
ToNum(t) ==
    IF t = <<>> THEN 0
    ELSE 10 * ToNum(SubSeq(t, 1, Len(t) - 1)) + DigitVal(t[Len(t)])

\* position of the first character of s at or after `from` that is in cs, or 0
Find(s, cs, from) ==
    IF \E i \in from..Len(s) : s[i] \in cs
    THEN CHOOSE i \in from..Len(s) :
            s[i] \in cs /\ \A j \in from..(i - 1) : s[j] \notin cs
    ELSE 0

IsLeap(y) == (y % 4 = 0) /\ ((y % 100 # 0) \/ (y % 400 = 0))

DaysInMonth(y, m) ==
    IF m = 2 THEN (IF IsLeap(y) THEN 29 ELSE 28)
    ELSE IF m \in {4, 6, 9, 11} THEN 30 ELSE 31

\* a token of 1 or 2 digits whose value is in lo..hi
TwoDigit(t, lo, hi) ==
    Len(t) \in {1, 2} /\ AllDigits(t) /\ ToNum(t) \in lo..hi

NoDate == [ok |-> FALSE]

\* the parsed datetime, or NoDate where strptime raises ValueError
strptime(s) ==
    LET i1 == Find(s, {"-"}, 1)
        i2 == IF i1 = 0 THEN 0 ELSE Find(s, {"-"}, i1 + 1)
        i3 == IF i2 = 0 THEN 0 ELSE Find(s, {"T", "t"}, i2 + 1)
        i4 == IF i3 = 0 THEN 0 ELSE Find(s, {":"}, i3 + 1)
        i5 == IF i4 = 0 THEN 0 ELSE Find(s, {":"}, i4 + 1)
        i6 == IF i5 = 0 THEN 0 ELSE Find(s, {"."}, i5 + 1)
    IN IF i6 = 0 THEN NoDate
       ELSE
       LET tY == SubSeq(s, 1, i1 - 1)
           tm == SubSeq(s, i1 + 1, i2 - 1)
           td == SubSeq(s, i2 + 1, i3 - 1)
           tH == SubSeq(s, i3 + 1, i4 - 1)
           tM == SubSeq(s, i4 + 1, i5 - 1)
           tS == SubSeq(s, i5 + 1, i6 - 1)
           tf == SubSeq(s, i6 + 1, Len(s))
           \* %d also matches a blank followed by a digit 1..9
           dd == IF Len(td) = 2 /\ td[1] = " " THEN <<td[2]>> ELSE td
           matches ==
               /\ Len(tY) = 4 /\ AllDigits(tY)
               /\ TwoDigit(tm, 1, 12)
               /\ TwoDigit(dd, 1, 31)
               /\ (Len(td) = 2 /\ td[1] = " " => Len(dd) = 1)
               /\ TwoDigit(tH, 0, 23)
               /\ TwoDigit(tM, 0, 59)
               /\ TwoDigit(tS, 0, 61)
               /\ Len(tf) \in 1..6 /\ AllDigits(tf)
       IN IF ~matches THEN NoDate
          ELSE
          LET y == ToNum(tY)
              m == ToNum(tm)
              d == ToNum(dd)
              \* %f is padded with zeros on the right to 6 digits
              f == ToNum(tf \o [k \in 1..(6 - Len(tf)) |-> "0"])
          IN IF y < 1 \/ d > DaysInMonth(y, m) \/ ToNum(tS) > 59
             THEN NoDate
             ELSE [ok |-> TRUE, year |-> y, month |-> m, day |-> d,
                   hour |-> ToNum(tH), minute |-> ToNum(tM),
                   second |-> ToNum(tS), microsecond |-> f]

RECURSIVE Pad(_, _)
\* n written with w digits
Pad(n, w) ==
    IF w = 0 THEN <<>>
    ELSE Append(Pad(n \div 10, w - 1), Digits[(n % 10) + 1])

\* sqlite3's default adapter for datetime: val.isoformat(" ")
adapt_datetime(dt) ==
    Pad(dt.year, 4) \o <<"-">> \o Pad(dt.month, 2) \o <<"-">> \o
    Pad(dt.day, 2) \o <<" ">> \o Pad(dt.hour, 2) \o <<":">> \o
    Pad(dt.minute, 2) \o <<":">> \o Pad(dt.second, 2) \o
    (IF dt.microsecond = 0 THEN <<>>
     ELSE <<".">> \o Pad(dt.microsecond, 6))

----------------------------------------------------------------------------
(* The environment: FITS files, their primary headers, the prompt answers  *)

Chars2020 ==
    <<"2","0","2","0","-","0","5","-","0","1","T",
      "0","3",":","1","5",":","3","0",".","2","5","0","0","0","0">>

Chars2021 ==
    <<"2","0","2","1","-","1","-","2","T","4",":","0","5",":","0","6",".","0">>

CharsNotADate == <<"n","o","t","-","a","-","d","a","t","e">>

\* a date without the fraction of the second that the format asks for
CharsNoFraction ==
    <<"2","0","2","0","-","0","5","-","0","1","T",
      "0","3",":","1","5",":","3","0">>

\* a primary header is a function from the keys it holds to their values
HdrFlatA ==
    ("IMAGETYP" :> "flat") @@ ("EXPTIME" :> "10") @@ ("PROJECT" :> "P") @@
    ("OBJECT" :> "A") @@ ("SLIT" :> "1") @@ ("I2POS" :> "2") @@
    ("IODID" :> "3") @@ ("DATE-OBS" :> Chars2020)

HdrFlatB == ("OBJECT" :> "B") @@ HdrFlatA

\* a header without EXPTIME, PROJECT, SLIT, I2POS and IODID
HdrBias ==
    ("IMAGETYP" :> "bias") @@ ("OBJECT" :> "A") @@ ("DATE-OBS" :> Chars2021)

HdrBadDate == ("DATE-OBS" :> CharsNotADate) @@ HdrFlatA

HdrNoFraction == ("DATE-OBS" :> CharsNoFraction) @@ HdrFlatA

\* a header without DATE-OBS
HdrDark == ("IMAGETYP" :> "dark") @@ ("OBJECT" :> "A")

Headers ==
    {HdrFlatA, HdrFlatB, HdrBias, HdrBadDate, HdrNoFraction, HdrDark}

\* a file that fits.open cannot open or parse
Unreadable == [unreadable |-> TRUE]

IsReadable(f) == "unreadable" \notin DOMAIN f

FileStates == Headers \cup {Unreadable}

\* the paths handed to insert_from_file: two spellings of one file under
\* the base directory, and a file outside it
InputPaths ==
    {<<"home", "rtr", "a.fits">>,
     <<"home", "rtr", "night", "..", "a.fits">>,
     <<"data", "b.fits">>}

\* the answers typed at the confirmation prompt
Answers == {"y", "Y", "n", "yes"}

\* str.lower() over the answers
lower(a) == IF a = "Y" THEN "y" ELSE a

\* the keyword arguments of query: a dict, as the sequence of its items
QueryItems ==
    {<<"imagetype", "flat">>, <<"object", "A">>, <<"bogus", "1">>}

RECURSIVE KwargsOfLen(_)
KwargsOfLen(n) ==
    IF n = 0 THEN {<<>>}
    ELSE {Append(kw, it) : kw \in KwargsOfLen(n - 1), it \in QueryItems}

DistinctNames(kw) ==
    \A i, j \in 1..Len(kw) : i # j => kw[i][1] # kw[j][1]

Kwargs ==
    {kw \in UNION {KwargsOfLen(n) : n \in 0..MaxAttrs} : DistinctNames(kw)}

----------------------------------------------------------------------------
(* State *)

VARIABLES
    pyLegacy,    \* the sqlite3 module commits before a non-DML statement
                 \* (Python < 3.6) or does not (Python >= 3.6)
    fdEnforced,  \* a connection to /dev/fd/N of an O_RDONLY descriptor
                 \* rejects writes (BSD) or reopens the file r/w (Linux)
    fileExists,  \* os.path.isfile(conf['dbfile'])
    disk,        \* the committed content of the database file
    handle,      \* the Database object
    view,        \* the content seen through the connection
    last,        \* the last call: arguments, exception, return value, output
    memo         \* what is computed once and never changes: self.columns,
                 \* and the kwargs, bad headers and records of the model

vars == <<memo, pyLegacy, fdEnforced, fileExists, disk, handle, view, last>>

\* the columns of a table created from self.columns
\* a table declared with the header columns only, without the path column
SchemaOfHeader(cols) == {<<c, cols[c]>> : c \in DOMAIN cols \ {"path"}}

SchemaOf(cols) == {<<c, cols[c]>> : c \in DOMAIN cols}

NoTable == [hasTable |-> FALSE, schema |-> {}, rows |-> <<>>]

NoHandle == [open |-> FALSE, readonly |-> FALSE, hasFd |-> FALSE,
             inTxn |-> FALSE]

NoRet == [isNone |-> TRUE, rows |-> <<>>]

\* one printed line: its text and the names it lists
Line(text, names) == [text |-> text, names |-> names]

\* the record of a call: its argument, the exception it raised, what it
\* returned, the lines it printed and the statements it executed.  For a
\* successful insert_from_file, `old` holds the rows that the statement
\* replaced and `again` tells that the call directly follows a successful
\* insert_from_file of the same path and file content.  For rebuild_tables
\* `old` holds the rows of the dropped table, for close and __exit__ the
\* handle before the call.
Call(op, arg, err, ret, out, sql) ==
    [op |-> op, arg |-> arg, err |-> err, ret |-> ret, out |-> out,
     sql |-> sql, old |-> <<>>, again |-> FALSE]

----------------------------------------------------------------------------
(* The sqlite3 connection: Database.sql, i.e. cursor.execute               *)
(* A connection state is [inTxn, view, disk]; a result adds err.           *)

ConnState == [inTxn |-> handle.inTxn, view |-> view, disk |-> disk]

\* writes are rejected only through an enforced read-only descriptor
Writable == ~(handle.hasFd /\ fdEnforced)

Result(err, c) ==
    [err |-> err, inTxn |-> c.inTxn, view |-> c.view, disk |-> c.disk]

\* connection.commit()
Commit(c) == [inTxn |-> FALSE, view |-> c.view, disk |-> c.view]

\* One statement.  kind is "dml" (INSERT, REPLACE, UPDATE, DELETE),
\* "select" or "other"; prepErr is the error of compiling the statement
\* ("none" when it compiles); newView is the content after its writes.
\* The legacy module opens or commits the transaction from the statement's
\* first word before compiling it; the later module opens a transaction
\* before a compiled DML statement and never commits implicitly.
\* an execute whose SELECT commits the open transaction
ExecuteSelectCommits(c, kind, prepErr, newView) ==
    LET c1 == IF kind = "select" THEN Commit(c)
              ELSE IF ~pyLegacy THEN c
              ELSE IF kind = "dml" THEN [c EXCEPT !.inTxn = TRUE]
              ELSE Commit(c)
        c2 == IF ~pyLegacy /\ kind = "dml"
              THEN [c1 EXCEPT !.inTxn = TRUE] ELSE c1
    IN IF prepErr # "none" THEN Result(prepErr, c1)
       ELSE IF kind = "select" THEN Result("none", c2)
       ELSE IF ~Writable THEN Result("ReadOnly", c2)
       ELSE Result("none",
                   [inTxn |-> c2.inTxn, view |-> newView,
                    disk |-> IF c2.inTxn THEN c2.disk ELSE newView])

Execute(c, kind, prepErr, newView) ==
    LET c1 == IF ~pyLegacy THEN c
              ELSE IF kind = "dml" THEN [c EXCEPT !.inTxn = TRUE]
              ELSE IF kind = "other" THEN Commit(c)
              ELSE c
        c2 == IF ~pyLegacy /\ kind = "dml"
              THEN [c1 EXCEPT !.inTxn = TRUE] ELSE c1
    IN IF prepErr # "none" THEN Result(prepErr, c1)
       ELSE IF kind = "select" THEN Result("none", c2)
       ELSE IF ~Writable THEN Result("ReadOnly", c2)
       ELSE Result("none",
                   [inTxn |-> c2.inTxn, view |-> newView,
                    disk |-> IF c2.inTxn THEN c2.disk ELSE newView])

TableErr(c) == IF c.view.hasTable THEN "none" ELSE "NoSuchTable"

\* 'DROP TABLE files'
DropTable(c) == Execute(c, "other", TableErr(c), NoTable)

\* "CREATE TABLE files (%s)" over self.columns
CreateTable(c) ==
    Execute(c, "other",
            IF c.view.hasTable THEN "TableExists" ELSE "none",
            [hasTable |-> TRUE, schema |-> SchemaOf(memo.columns),
             rows |-> <<>>])

\* INSERT into a table whose path column lacks the UNIQUE constraint
InsertPlain(rows, r, schema) == Append(rows, r)

\* the rows after INSERT OR REPLACE of r: the UNIQUE constraint on path
\* deletes the rows that hold the same path before r is added
InsertOrReplace(rows, r, schema) ==
    LET Other(x) == x.path # r.path
    IN IF <<"path", "CHARACTER(72) UNIQUE">> \in schema
       THEN Append(SelectSeq(rows, Other), r)
       ELSE Append(rows, r)

\* 'INSERT OR REPLACE INTO files (keys) VALUES (?, ...)'
InsertStmt(c, r) ==
    Execute(c, "dml",
            IF ~c.view.hasTable THEN "NoSuchTable"
            ELSE IF \E k \in DOMAIN r :
                       \A col \in c.view.schema : col[1] # k
                 THEN "NoSuchColumn" ELSE "none",
            [c.view EXCEPT
                !.rows = InsertOrReplace(c.view.rows, r, c.view.schema)])

\* "DELETE FROM files"
DeleteStmt(c) == Execute(c, "dml", TableErr(c), [c.view EXCEPT !.rows = <<>>])

\* "VACUUM": refused inside a transaction, changes no row
Vacuum(c) ==
    LET c1 == IF pyLegacy THEN Commit(c) ELSE c
    IN IF c1.inTxn THEN Result("VacuumInTxn", c1)
       ELSE IF ~Writable THEN Result("ReadOnly", c1)
       ELSE Result("none", c1)

\* the rows that satisfy every clause "name = ?" with its bound value
Matching(rows, kw) ==
    LET Sat(x) == \A i \in 1..Len(kw) : x[kw[i][1]] = kw[i][2]
    IN SelectSeq(rows, Sat)

\* "SELECT * FROM files WHERE c1 = ? AND c2 = ? ..."
SelectStmt(c, kw) ==
    Execute(c, "select",
            IF kw = <<>> THEN "SyntaxError" ELSE TableErr(c),
            c.view)

----------------------------------------------------------------------------
(* Database *)

SetConn(c) ==
    /\ handle' = [handle EXCEPT !.inTxn = c.inTxn]
    /\ view' = c.view
    /\ disk' = c.disk

\* Database.__init__(readonly)
Open(readonly) ==
    /\ ~handle.open
    /\ IF readonly /\ fileExists
       THEN /\ handle' = [open |-> TRUE, readonly |-> readonly,
                          hasFd |-> TRUE, inTxn |-> FALSE]
            /\ UNCHANGED fileExists
       ELSE /\ handle' = [open |-> TRUE, readonly |-> readonly,
                          hasFd |-> FALSE, inTxn |-> FALSE]
            /\ fileExists' = TRUE
    /\ view' = disk
    /\ last' = Call("open", readonly, "none", NoRet, <<>>, <<>>)
    /\ UNCHANGED <<memo, pyLegacy, fdEnforced, disk>>

\* a release that leaves the descriptor of a read-only handle open
CloseFdLeak(h) ==
    IF h.hasFd THEN [err |-> "none", hasFd |-> TRUE]
    ELSE [err |-> "AttributeError", hasFd |-> FALSE]

\* os.close(self._fd): AttributeError when __init__ opened no descriptor
CloseFd(h) ==
    IF h.hasFd THEN [err |-> "none", hasFd |-> FALSE]
    ELSE [err |-> "AttributeError", hasFd |-> FALSE]

\* the body of Database.close() under the name op, called with arg: closing
\* the connection rolls an open transaction back, and the AttributeError of
\* os.close(self._fd) is passed over.  old: the handle before the call
Release(op, arg) ==
    LET fd == CloseFd(handle)
    IN /\ handle' = [open |-> FALSE, readonly |-> FALSE,
                     hasFd |-> fd.hasFd, inTxn |-> FALSE]
       /\ view' = disk
       /\ last' = [Call(op, arg,
                        IF fd.err = "AttributeError" THEN "none" ELSE fd.err,
                        NoRet, <<>>, <<>>)
                   EXCEPT !.old = <<handle>>]
       /\ UNCHANGED <<memo, pyLegacy, fdEnforced, fileExists, disk>>

\* Database.close()
close ==
    /\ handle.open
    /\ Release("close", "")

\* Database.__enter__(), called by `with` on the handle just constructed:
\* it returns self
__enter__ ==
    /\ handle.open
    /\ last.op = "open"
    /\ last' = Call("__enter__", "", "none", NoRet, <<>>, <<>>)
    /\ UNCHANGED <<memo, pyLegacy, fdEnforced, fileExists, disk, handle,
                   view>>

\* Database.__exit__(*args), called by `with` when its block ends: raised
\* says that the block ends with the exception of the last call.  It
\* returns None, so the exception goes on after the close
__exit__(raised) ==
    /\ handle.open
    /\ raised => last.err # "none"
    /\ Release("__exit__", raised)

\* a confirmation that takes every answer starting with y as a yes
_confirmPrefix(answer) == lower(answer) \in {"y", "yes"}

\* Database._confirm() with the answer read by input()
_confirm(answer) == lower(answer) = "y"

Prompt == Line("Are you sure? (Y/[N])", {})
Aborted == Line("Aborted..", {})
Done == Line("DONE!", {})

\* Database.rebuild_tables()
rebuild_tables(answer) ==
    /\ handle.open
    /\ IF _confirm(answer)
       THEN LET d == DropTable(ConnState)
                \* sqlite3.OperationalError of the DROP is passed over
                cr == CreateTable([inTxn |-> d.inTxn, view |-> d.view,
                                   disk |-> d.disk])
            IN /\ SetConn(cr)
               \* old: the rows of the table that the DROP removed
               /\ last' = [Call("rebuild_tables", answer, cr.err, NoRet,
                                <<Prompt, Line("Deleting old tables..", {}),
                                  Line("Recreating tables..", {})>>
                                \o (IF cr.err = "none" THEN <<Done>>
                                    ELSE <<>>),
                                <<"DROP", "CREATE">>)
                           EXCEPT !.old = IF d.err = "none" THEN view.rows
                                          ELSE <<>>]
       ELSE /\ last' = Call("rebuild_tables", answer, "none", NoRet,
                            <<Prompt, Aborted>>, <<>>)
            /\ UNCHANGED <<handle, view, disk>>
    /\ UNCHANGED <<memo, pyLegacy, fdEnforced, fileExists>>

\* Database.flush()
flush(answer) ==
    /\ handle.open
    /\ IF _confirm(answer)
       THEN LET d == DeleteStmt(ConnState)
                v == Vacuum([inTxn |-> d.inTxn, view |-> d.view,
                             disk |-> d.disk])
                res == IF d.err # "none" THEN d ELSE v
            IN /\ SetConn(res)
               /\ last' = Call("flush", answer, res.err, NoRet,
                               <<Prompt, Line("Flushing..", {})>>
                               \o (IF res.err = "none" THEN <<Done>>
                                   ELSE <<>>),
                               IF d.err # "none" THEN <<"DELETE">>
                               ELSE <<"DELETE", "VACUUM">>)
       ELSE /\ last' = Call("flush", answer, "none", NoRet,
                            <<Prompt, Aborted>>, <<>>)
            /\ UNCHANGED <<handle, view, disk>>
    /\ UNCHANGED <<memo, pyLegacy, fdEnforced, fileExists>>

\* a record initialised with a null marker instead of ''
EmptyNull(c) == IF ContainsDATE(columns[c]) THEN <<"N">> ELSE "NULL"

\* the sentinel '' of a column
Empty(c) == IF ContainsDATE(columns[c]) THEN <<>> ELSE ""

\* a date-typed key that is present and that strptime rejects
DateError(header) ==
    \E k \in HeaderKeys \cap DOMAIN header :
        /\ ContainsDATE(header_keywords[k].datatype)
        /\ ~strptime(header[k]).ok

\* a record whose date is bound as the text of the header, not parsed
RecordRaw(path, header) ==
    [c \in DOMAIN columns |->
        IF c = "path" THEN relpath(path, basedir)
        ELSE LET k == KeyOf(c) IN
             IF k \notin DOMAIN header THEN Empty(c) ELSE header[k]]

\* the record r of insert_from_file, as its values are bound to the
\* statement (a datetime is bound through the adapter)
Record(path, header) ==
    [c \in DOMAIN columns |->
        IF c = "path" THEN relpath(path, basedir)
        ELSE LET k == KeyOf(c) IN
             IF k \notin DOMAIN header THEN Empty(c)
             ELSE IF ContainsDATE(header_keywords[k].datatype)
                  THEN adapt_datetime(strptime(header[k]))
                  ELSE header[k]]

\* the headers of the files whose date does not parse, and the records of
\* the other files, computed once for the paths and headers of the model
BadDates == {h \in Headers : DateError(h)}

Records ==
    [path \in InputPaths |-> [h \in Headers \ BadDates |-> Record(path, h)]]

\* an extraction that treats ValueError like KeyError: the date that does
\* not parse is left out and its column keeps the sentinel
ExtractSwallow(path, f) ==
    IF ~IsReadable(f) THEN [err |-> "IOError", r |-> <<>>]
    ELSE IF f \in memo.bad
    THEN [err |-> "none",
          r |-> Record(path, [k \in DOMAIN f \ {"DATE-OBS"} |-> f[k]])]
    ELSE [err |-> "none", r |-> memo.records[path][f]]

\* the outcome of building r: IOError when fits.open fails, ValueError when
\* strptime fails, else the record
Extract(path, f) ==
    IF ~IsReadable(f) THEN [err |-> "IOError", r |-> <<>>]
    ELSE IF f \in memo.bad THEN [err |-> "ValueError", r |-> <<>>]
    ELSE [err |-> "none", r |-> memo.records[path][f]]

\* Database.insert_from_file(path), where f is what fits.open(path) finds
insert_from_file(path, f) ==
    LET arg == [path |-> path, file |-> f]
        e == Extract(path, f)
    IN
    /\ handle.open
    /\ IF e.err # "none"
       THEN /\ last' = Call("insert_from_file", arg, e.err, NoRet, <<>>, <<>>)
            /\ UNCHANGED <<handle, view, disk>>
       ELSE LET ins == InsertStmt(ConnState, e.r)
                res == IF ins.err # "none" THEN ins
                       ELSE Result("none", Commit(ins))
                Same(x) == x.path = e.r.path
            IN /\ SetConn(res)
               /\ last' =
                    [Call("insert_from_file", arg, res.err, NoRet, <<>>,
                          IF ins.err # "none" THEN <<"INSERT">>
                          ELSE <<"INSERT", "COMMIT">>)
                     EXCEPT !.old = IF res.err = "none"
                                    THEN SelectSeq(view.rows, Same)
                                    ELSE <<>>,
                            !.again =
                                /\ res.err = "none"
                                /\ last.op = "insert_from_file"
                                /\ last.err = "none"
                                /\ last.arg.file = f
                                /\ memo.records[last.arg.path][f].path = e.r.path]
    /\ UNCHANGED <<memo, pyLegacy, fdEnforced, fileExists>>

\* the positions of the keyword arguments that are not in self.columns
Illegal(kw) == {i \in 1..Len(kw) : kw[i][1] \notin DOMAIN memo.columns}

\* what query prints for the first illegal keyword
IllegalOutput(kw) ==
    LET i == CHOOSE i \in Illegal(kw) : \A j \in Illegal(kw) : i <= j
    IN <<Line("Illegal keyword argument", {kw[i][1]}),
         Line("The following keywords are allowed", DOMAIN memo.columns)>>

\* a query that reports the illegal keyword and carries on with the
\* clauses of the legal ones
QueryCallPartial(op, kw) ==
    LET Legal(it) == it[1] \in DOMAIN memo.columns
        legal == SelectSeq(kw, Legal)
        sel == SelectStmt(ConnState, legal)
        out == IF Illegal(kw) # {} THEN IllegalOutput(kw) ELSE <<>>
    IN IF sel.err # "none"
       THEN Call(op, kw, sel.err, NoRet, out, <<"SELECT">>)
       ELSE Call(op, kw, "none",
                 [isNone |-> FALSE, rows |-> Matching(view.rows, legal)],
                 out, <<"SELECT">>)

\* Database.query(**kwargs): the call record under the name op
QueryCall(op, kw) ==
    IF Illegal(kw) # {}
    THEN Call(op, kw, "none", NoRet, IllegalOutput(kw), <<>>)
    ELSE LET sel == SelectStmt(ConnState, kw)
         IN IF sel.err # "none"
            THEN Call(op, kw, sel.err, NoRet, <<>>, <<"SELECT">>)
            ELSE Call(op, kw, "none",
                      [isNone |-> FALSE, rows |-> Matching(view.rows, kw)],
                      <<>>, <<"SELECT">>)

\* the connection after Database.query(**kwargs): as it was when a keyword
\* is illegal, else as the SELECT leaves it
QueryConn(kw) ==
    IF Illegal(kw) # {} THEN ConnState ELSE SelectStmt(ConnState, kw)

query(kw) ==
    /\ handle.open
    /\ SetConn(QueryConn(kw))
    /\ last' = QueryCall("query", kw)
    /\ UNCHANGED <<memo, pyLegacy, fdEnforced, fileExists>>

\* Database.query_files(**kwargs): iterating over None raises TypeError
query_files(kw) ==
    LET q == QueryCall("query_files", kw)
    IN
    /\ handle.open
    /\ last' = IF q.err # "none" THEN q
               ELSE IF q.ret.isNone THEN [q EXCEPT !.err = "TypeError"]
               ELSE [q EXCEPT !.ret.rows =
                        [i \in 1..Len(q.ret.rows) |-> q.ret.rows[i].path]]
    /\ SetConn(QueryConn(kw))
    /\ UNCHANGED <<memo, pyLegacy, fdEnforced, fileExists>>

Init ==
    /\ pyLegacy \in BOOLEAN
    /\ fdEnforced \in BOOLEAN
    /\ fileExists = FALSE
    /\ disk = NoTable
    /\ handle = NoHandle
    /\ view = NoTable
    /\ last = Call("none", "", "none", NoRet, <<>>, <<>>)
    /\ memo = [columns |-> columns, kwargs |-> Kwargs, bad |-> BadDates,
               records |-> Records]

Next ==
    \/ \E readonly \in BOOLEAN : Open(readonly)
    \/ close
    \/ __enter__
    \/ \E raised \in BOOLEAN : __exit__(raised)
    \/ \E answer \in Answers : rebuild_tables(answer)
    \/ \E answer \in Answers : flush(answer)
    \/ \E path \in InputPaths, f \in FileStates : insert_from_file(path, f)
    \/ \E kw \in memo.kwargs : query(kw)
    \/ \E kw \in memo.kwargs : query_files(kw)

Spec == Init /\ [][Next]_vars

----------------------------------------------------------------------------
(* Properties *)

\* the rows of a table that hold the path key, and the other rows
RowsAt(store, key) ==
    LET Same(x) == x.path = key IN SelectSeq(store.rows, Same)

Others(store, key) ==
    LET Other(x) == x.path # key IN SelectSeq(store.rows, Other)

UniquePaths(store) ==
    \A i, j \in 1..Len(store.rows) :
        i # j => store.rows[i].path # store.rows[j].path

\* C1: in every reachable state, no two rows of the `files` table have the
\* same path, in the table as the connection sees it and as it is committed.
C1_PathUnique == UniquePaths(view) /\ UniquePaths(disk)

\* a successful insert_from_file replaced the row of its path while the
\* table held the row of another path
C1_Witness ==
    /\ last.op = "insert_from_file"
    /\ last.err = "none"
    /\ Len(last.old) = 1
    /\ Len(view.rows) = 2

\* C2: when insert_from_file(p) succeeds on a table that holds a row for p
\* whose object differs from the OBJECT of the file now, the table then
\* holds exactly one row for p, its object is the file's OBJECT, the rows of
\* the other paths are as before the call, and this is what is committed.
C2_Upsert ==
    [][(/\ last'.op = "insert_from_file"
        /\ last'.err = "none"
        /\ "OBJECT" \in DOMAIN last'.arg.file
        /\ \E i \in 1..Len(view.rows) :
              /\ view.rows[i].path = relpath(last'.arg.path, basedir)
              /\ view.rows[i].object # last'.arg.file["OBJECT"])
       => LET key == relpath(last'.arg.path, basedir) IN
          /\ Len(RowsAt(view', key)) = 1
          /\ RowsAt(view', key)[1].object = last'.arg.file["OBJECT"]
          /\ Others(view', key) = Others(view, key)
          /\ disk' = view']_vars

\* insert_from_file replaced a row with object A by one with object B while
\* the table held the row of another path
C2_Witness ==
    /\ last.op = "insert_from_file"
    /\ last.err = "none"
    /\ Len(last.old) = 1
    /\ last.old[1].object = "A"
    /\ last.arg.file["OBJECT"] = "B"
    /\ Len(view.rows) = 2
    /\ \E i \in 1..2 : view.rows[i].object = "B"
                       /\ view.rows[i].path = last.old[1].path

\* C3: an insert_from_file(p) that directly follows a successful
\* insert_from_file(p) of the same file content leaves the table, as seen
\* and as committed, in the state the first call left, with one row for p.
C3_Idempotent ==
    [][(last'.op = "insert_from_file" /\ last'.again)
       => /\ view' = view
          /\ disk' = disk
          /\ Len(RowsAt(view', relpath(last'.arg.path, basedir))) = 1]_vars

\* the second of two equal calls replaced the row the first call wrote
C3_Witness ==
    /\ last.op = "insert_from_file"
    /\ last.again
    /\ Len(view.rows) = 2
    /\ last.old = RowsAt(view, relpath(last.arg.path, basedir))

Yes == {"y", "Y"}

\* C4: on a handle opened with readonly=True, each insert_from_file and each
\* confirmed rebuild_tables fails and changes neither the rows nor the
\* structure of the store.  (The kind of the error is left open here: any
\* exception counts as the failure the claim asks for.)
C4_ReadOnlyEnforced ==
    [][(/\ handle.open
        /\ handle.readonly
        /\ \/ last'.op = "insert_from_file"
           \/ (last'.op = "rebuild_tables" /\ last'.arg \in Yes))
       => /\ last'.err # "none"
          /\ view' = view
          /\ disk' = disk]_vars

\* C5: when the answer to the prompt is not "y" in either case,
\* rebuild_tables and flush print the abort notice, execute no statement
\* and leave the table, its columns, its rows and the connection unchanged.
C5_DeclineNoEffect ==
    [][(last'.op \in {"rebuild_tables", "flush"} /\ last'.arg \notin Yes)
       => /\ view' = view
          /\ disk' = disk
          /\ handle' = handle
          /\ fileExists' = fileExists
          /\ last'.sql = <<>>
          /\ last'.out[Len(last'.out)].text = "Aborted.."]_vars

\* rebuild_tables answered "yes" left a table of two rows in place
C5_Witness ==
    /\ last.op = "rebuild_tables"
    /\ last.arg = "yes"
    /\ view.hasTable
    /\ Len(view.rows) = 2
    /\ disk = view

KnownColumns ==
    {"path", "imagetype", "exptime", "project", "object", "slit", "i2pos",
     "iodid", "date"}

AllKnown(kw) == \A i \in 1..Len(kw) : kw[i][1] \in KnownColumns

\* the rows of the table that equal the supplied value in every supplied
\* attribute
Satisfying(kw) ==
    {x \in {view.rows[n] : n \in 1..Len(view.rows)} :
        \A i \in 1..Len(kw) : x[kw[i][1]] = kw[i][2]}

SeqToSet(q) == {q[n] : n \in 1..Len(q)}

\* C6: while the table exists, query with attributes that are all known
\* columns raises nothing and returns exactly the rows that equal the
\* supplied value in every supplied attribute (none when none matches), and
\* query_files returns exactly the paths of those rows.
C6_QueryRoundTrip ==
    /\ (last.op = "query" /\ AllKnown(last.arg) /\ view.hasTable)
       => /\ last.err = "none"
          /\ ~last.ret.isNone
          /\ SeqToSet(last.ret.rows) = Satisfying(last.arg)
          /\ Len(last.ret.rows) = Cardinality(Satisfying(last.arg))
    /\ (last.op = "query_files" /\ AllKnown(last.arg) /\ view.hasTable)
       => /\ last.err = "none"
          /\ SeqToSet(last.ret.rows)
                = {x.path : x \in Satisfying(last.arg)}
          /\ Len(last.ret.rows) = Cardinality(Satisfying(last.arg))

\* C6 with at least one attribute supplied: this part holds of the code
C6_NonEmptyQuery ==
    /\ (last.op = "query" /\ AllKnown(last.arg) /\ view.hasTable
        /\ last.arg # <<>>)
       => /\ last.err = "none"
          /\ ~last.ret.isNone
          /\ SeqToSet(last.ret.rows) = Satisfying(last.arg)
          /\ Len(last.ret.rows) = Cardinality(Satisfying(last.arg))
    /\ (last.op = "query_files" /\ AllKnown(last.arg) /\ view.hasTable
        /\ last.arg # <<>>)
       => /\ last.err = "none"
          /\ SeqToSet(last.ret.rows)
                = {x.path : x \in Satisfying(last.arg)}
          /\ Len(last.ret.rows) = Cardinality(Satisfying(last.arg))

\* C7: when a supplied attribute name of query is not a known column, at
\* any position, query prints a supplied unknown name and the list of the
\* known columns, executes no statement, raises nothing and returns None.
C7_UnknownRejected ==
    (last.op = "query" /\ ~AllKnown(last.arg))
    => /\ last.ret.isNone
       /\ last.err = "none"
       /\ last.sql = <<>>
       /\ Len(last.out) = 2
       /\ \E i \in 1..Len(last.arg) :
             /\ last.arg[i][1] \notin KnownColumns
             /\ last.out[1].names = {last.arg[i][1]}
       /\ last.out[2].names = KnownColumns

\* a query whose second attribute is unknown and whose first attribute, a
\* known one, matches a row of the table
C7_Witness ==
    /\ last.op = "query"
    /\ Len(last.arg) = 2
    /\ last.arg[1] = <<"imagetype", "flat">>
    /\ last.arg[2][1] = "bogus"
    /\ last.ret.isNone
    /\ \E n \in 1..Len(view.rows) : view.rows[n].imagetype = "flat"

\* the date of a header parses, or the header has none
DateParses(f) ==
    "DATE-OBS" \in DOMAIN f => strptime(f["DATE-OBS"]).ok

\* C8: on a read-write handle with the table in place, insert_from_file of
\* a readable file whose date parses (or is absent) succeeds, and the row
\* of its path holds the sentinel in exactly the columns of the keys the
\* header lacks and the extracted value in every other mapped column.
C8_MissingKeyDefault ==
    (/\ last.op = "insert_from_file"
     /\ IsReadable(last.arg.file)
     /\ DateParses(last.arg.file)
     /\ handle.open /\ ~handle.readonly
     /\ view.hasTable)
    => LET f == last.arg.file
           at == RowsAt(view, relpath(last.arg.path, basedir))
       IN /\ last.err = "none"
          /\ Len(at) = 1
          /\ \A k \in HeaderKeys :
                LET n == header_keywords[k].name IN
                IF k = "DATE-OBS"
                THEN IF k \in DOMAIN f
                     THEN at[1][n] = adapt_datetime(strptime(f[k]))
                          /\ at[1][n] # <<>>
                     ELSE at[1][n] = <<>>
                ELSE IF k \in DOMAIN f
                     THEN at[1][n] = f[k] /\ at[1][n] # ""
                     ELSE at[1][n] = ""

\* the row of a header that lacks EXPTIME, PROJECT, SLIT, I2POS and IODID
C8_Witness ==
    /\ last.op = "insert_from_file"
    /\ last.err = "none"
    /\ DOMAIN last.arg.file = {"IMAGETYP", "OBJECT", "DATE-OBS"}
    /\ \E n \in 1..Len(view.rows) :
          /\ view.rows[n].path = relpath(last.arg.path, basedir)
          /\ view.rows[n].exptime = ""
          /\ view.rows[n].imagetype = "bias"

\* C9: an insert_from_file whose file cannot be opened or parsed, or whose
\* present date does not parse, raises the error and leaves the table, as
\* seen and as committed, and the connection as they were before the call.
C9_FailedInsertNotCommitted ==
    [][(/\ last'.op = "insert_from_file"
        /\ (~IsReadable(last'.arg.file) \/ ~DateParses(last'.arg.file)))
       => /\ last'.err = (IF IsReadable(last'.arg.file)
                          THEN "ValueError" ELSE "IOError")
          /\ view' = view
          /\ disk' = disk
          /\ handle' = handle]_vars

\* a date that does not parse was refused while the table held a row for
\* the path of the call and a row for another path
C9_Witness ==
    /\ last.op = "insert_from_file"
    /\ last.err = "ValueError"
    /\ Len(view.rows) = 2
    /\ Len(RowsAt(view, relpath(last.arg.path, basedir))) = 1
    /\ disk = view

\* C10: when insert_from_file, confirmed rebuild_tables or confirmed flush
\* returns on a read-write handle, no transaction is open and what the
\* connection sees is what is committed.
C10_CommittedOnReturn ==
    (/\ last.op \in {"insert_from_file", "rebuild_tables", "flush"}
     /\ last.err = "none"
     /\ (last.op # "insert_from_file" => last.arg \in Yes)
     /\ handle.open /\ ~handle.readonly)
    => (~handle.inTxn /\ disk = view)

\* the column names of a table
ColumnSet(store) == {c[1] : c \in store.schema}

\* C11: a confirmed flush on a read-write handle whose table exists raises
\* nothing and leaves the table in existence, with its columns and with no
\* row, whatever rows it held.
C11_FlushEmpties ==
    (/\ last.op = "flush"
     /\ last.arg \in Yes
     /\ handle.open /\ ~handle.readonly
     /\ view.hasTable)
    => /\ last.err = "none"
       /\ view.rows = <<>>
       /\ ColumnSet(view) = KnownColumns

\* C12: a confirmed rebuild_tables on a read-write handle raises nothing,
\* whether or not the table existed, and leaves the table in existence with
\* no row; and in every reachable state a table that exists, as seen or as
\* committed, has exactly the columns path, imagetype, exptime, project,
\* object, slit, i2pos, iodid and date.
C12_RebuildSchema ==
    /\ (last.op = "rebuild_tables" /\ last.arg \in Yes
        /\ handle.open /\ ~handle.readonly)
       => /\ last.err = "none"
          /\ view.hasTable
          /\ view.rows = <<>>
    /\ view.hasTable => ColumnSet(view) = KnownColumns
    /\ disk.hasTable => ColumnSet(disk) = KnownColumns

\* a confirmed rebuild_tables dropped a table of two rows and recreated it
C12_Witness ==
    /\ last.op = "rebuild_tables"
    /\ last.arg \in Yes
    /\ last.err = "none"
    /\ handle.open /\ ~handle.readonly
    /\ Len(last.old) = 2
    /\ view.hasTable /\ view.rows = <<>>

\* a confirmed rebuild_tables created the table where there was none
C12_WitnessFresh ==
    /\ last.op = "rebuild_tables"
    /\ last.arg \in Yes
    /\ last.err = "none"
    /\ handle.open /\ ~handle.readonly
    /\ last.old = <<>>
    /\ view.hasTable
    /\ last.out[Len(last.out)] = Done

\* a timestamp as the datetime adapter writes it: YYYY-MM-DD HH:MM:SS, with
\* .ffffff when the microsecond is not 0, of a date and time that exist
IsTimestamp(v) ==
    /\ Len(v) \in {19, 26}
    /\ v[5] = "-" /\ v[8] = "-" /\ v[11] = " "
    /\ v[14] = ":" /\ v[17] = ":"
    /\ Len(v) = 26 => v[20] = "."
    /\ \A i \in (1..Len(v)) \ {5, 8, 11, 14, 17, 20} : IsDigit(v[i])
    /\ ToNum(SubSeq(v, 1, 4)) >= 1
    /\ ToNum(SubSeq(v, 6, 7)) \in 1..12
    /\ ToNum(SubSeq(v, 9, 10))
          \in 1..DaysInMonth(ToNum(SubSeq(v, 1, 4)), ToNum(SubSeq(v, 6, 7)))
    /\ ToNum(SubSeq(v, 12, 13)) \in 0..23
    /\ ToNum(SubSeq(v, 15, 16)) \in 0..59
    /\ ToNum(SubSeq(v, 18, 19)) \in 0..59
    /\ Len(v) = 26 => ToNum(SubSeq(v, 21, 26)) # 0

DatesOK(store) ==
    \A n \in 1..Len(store.rows) :
        store.rows[n].date = <<>> \/ IsTimestamp(store.rows[n].date)

\* C13: in every reachable state the date of every row, as seen and as
\* committed, is the sentinel or the timestamp of a fully parsed date and
\* time, never the text of a date that did not parse in full.
C13_DatesParsedOrEmpty == DatesOK(view) /\ DatesOK(disk)

\* the table holds a row with a parsed date and a row with the sentinel,
\* and the last insert_from_file refused a date without its fraction
C13_Witness ==
    /\ last.op = "insert_from_file"
    /\ last.err = "ValueError"
    /\ last.arg.file = HdrNoFraction
    /\ Len(view.rows) = 2
    /\ \E n \in 1..2 : view.rows[n].date = <<>>
    /\ \E n \in 1..2 : IsTimestamp(view.rows[n].date)
    /\ disk = view

\* C14: close() and the end of a `with` block, by normal exit or by an
\* exception of a call in the block, raise nothing on a handle of either
\* mode, with or without a descriptor, and leave neither the connection nor
\* a descriptor open; and no descriptor is open without a connection.
C14_Released ==
    /\ last.op \in {"close", "__exit__"}
       => /\ last.err = "none"
          /\ ~handle.open
          /\ ~handle.hasFd
          /\ ~handle.inTxn
    /\ ~handle.open => ~handle.hasFd

\* a `with` block on a read-only handle without a descriptor ended with the
\* exception of a call in the block
C14_Witness ==
    /\ last.op = "__exit__"
    /\ last.arg = TRUE
    /\ last.old[1].open
    /\ last.old[1].readonly
    /\ ~last.old[1].hasFd
    /\ ~handle.open

\* close() on a read-only handle that held a descriptor
C14_WitnessFd ==
    /\ last.op = "close"
    /\ last.old[1].readonly
    /\ last.old[1].hasFd
    /\ ~handle.open

\* a `with` block on a read-write handle with an open transaction ended
\* normally
C14_WitnessNormalExit ==
    /\ last.op = "__exit__"
    /\ last.arg = FALSE
    /\ ~last.old[1].readonly
    /\ last.old[1].inTxn
    /\ ~handle.open

\* C15: when a supplied attribute name of query_files is not a known
\* column, query_files ends as query does: it prints a supplied unknown name
\* and the list of the known columns, executes no statement, raises nothing
\* and yields no path.
C15_UnknownSameOutcome ==
    (last.op = "query_files" /\ ~AllKnown(last.arg))
    => /\ last.err = "none"
       /\ last.ret.rows = <<>>
       /\ last.sql = <<>>
       /\ Len(last.out) = 2
       /\ \E i \in 1..Len(last.arg) :
             /\ last.arg[i][1] \notin KnownColumns
             /\ last.out[1].names = {last.arg[i][1]}
       /\ last.out[2].names = KnownColumns

\* the part of C15 that holds of the code: the names are printed and no
\* statement is executed
C15_Reported ==
    (last.op = "query_files" /\ ~AllKnown(last.arg))
    => /\ last.ret.rows = <<>>
       /\ last.sql = <<>>
       /\ Len(last.out) = 2
       /\ last.out[2].names = KnownColumns
       /\ last.err = "TypeError"

\* C16: a call of query or query_files, with known or unknown attributes,
\* on a read-only or a read-write handle, leaves the table as it is seen
\* and as it is committed (its existence, its columns and its rows) as it
\* was before the call.
C16_QueryReadOnly ==
    [][last'.op \in {"query", "query_files"}
       => (view' = view /\ disk' = disk)]_vars

\* a query on a read-write handle whose open transaction holds the
\* uncommitted deletion of the two committed rows
C16_Witness ==
    /\ last.op = "query"
    /\ last.err = "none"
    /\ ~last.ret.isNone
    /\ handle.open /\ ~handle.readonly
    /\ handle.inTxn
    /\ view.rows = <<>>
    /\ Len(disk.rows) = 2

\* query_files with an unknown attribute on a read-only handle over a table
\* of two rows
C16_WitnessReadOnly ==
    /\ last.op = "query_files"
    /\ ~AllKnown(last.arg)
    /\ handle.open /\ handle.readonly
    /\ Len(view.rows) = 2

====
